---- MODULE Spec2Model ----
(***************************************************************************)
(* State-machine model of the EbudhouAI backend (src/app.py): the          *)
(* /analyze and /history request handlers, the telemetry selector          *)
(* get_obd_data with its two probes, the diagnosis rule cascade, and the   *)
(* diagnosis_history table.                                                *)
(*                                                                         *)
(* Conventions.  Text is a sequence of one-character strings, so that      *)
(* str.lower() and the substring test `kw in symptoms` are computed.       *)
(* An optional number (Python None or a number) is <<>> or <<v>>.          *)
(* Voltages are in hundredths of a volt (11.5 V is 1150), rpm and          *)
(* temperature in their own units.                                         *)
(***************************************************************************)
EXTENDS Integers, Sequences, FiniteSets, TLC

\* Number of request handlers that may run concurrently.
NumProcs == 2
\* Total number of requests (analyze or history) served in a behaviour.
MaxRequests == 2

Procs == 1..NumProcs

---------------------------------------------------------------------------
(* Optional numbers *)

None == <<>>
Some(v) == <<v>>
Present(x) == x # None
Val(x) == x[1]

\* Python truthiness of an optional number: None and 0 are both false.
Truthy(x) == x # None /\ x[1] # 0

---------------------------------------------------------------------------
(* Text *)

UpperCase == <<"A", "B", "C", "D", "E", "F", "G", "H", "I", "J", "K", "L", "M", "N", "O", "P", "Q", "R", "S", "T", "U", "V", "W", "X", "Y", "Z">>
LowerCase == <<"a", "b", "c", "d", "e", "f", "g", "h", "i", "j", "k", "l", "m", "n", "o", "p", "q", "r", "s", "t", "u", "v", "w", "x", "y", "z">>

LowerChar(c) ==
    IF \E i \in 1..Len(UpperCase) : UpperCase[i] = c
    THEN LowerCase[CHOOSE i \in 1..Len(UpperCase) : UpperCase[i] = c]
    ELSE c

\* str.lower()
Lower(s) == [i \in 1..Len(s) |-> LowerChar(s[i])]

\* Python `kw in s` for strings: kw occurs in s as a contiguous substring.
Contains(kw, s) ==
    \E i \in 0..(Len(s) - Len(kw)) : \A j \in 1..Len(kw) : s[i + j] = kw[j]

kw_battery == <<"b", "a", "t", "t", "e", "r", "y">>
kw_low_voltage == <<"l", "o", "w", " ", "v", "o", "l", "t", "a", "g", "e">>
kw_not_starting == <<"n", "o", "t", " ", "s", "t", "a", "r", "t", "i", "n", "g">>
kw_starter == <<"s", "t", "a", "r", "t", "e", "r">>
kw_not_working == <<"n", "o", "t", " ", "w", "o", "r", "k", "i", "n", "g">>
kw_engine_not == <<"e", "n", "g", "i", "n", "e", " ", "n", "o", "t">>
kw_click == <<"c", "l", "i", "c", "k">>
kw_crank == <<"c", "r", "a", "n", "k">>
kw_overheat == <<"o", "v", "e", "r", "h", "e", "a", "t">>
kw_too_hot == <<"t", "o", "o", " ", "h", "o", "t">>
kw_stall == <<"s", "t", "a", "l", "l">>
kw_shut_off == <<"s", "h", "u", "t", " ", "o", "f", "f">>

---------------------------------------------------------------------------
(* Program constants *)

VOLTAGE_LIMIT == 1150
TEMPERATURE_LIMIT == 105
RPM_LIMIT == 500

WIFI_VOLTAGE == 1360
WIFI_RPM == 800
WIFI_TEMPERATURE == 92

SIMULATED_VOLTAGE == 1210
SIMULATED_RPM == 780
SIMULATED_TEMPERATURE == 94

---------------------------------------------------------------------------
(* Inputs: request bodies, live-device outcomes, network outcomes, database
   outcomes.  Each set is a sample of what the environment can supply. *)

TextEmpty == <<>>
TextBatteryOverheat == <<"B", "a", "t", "t", "e", "r", "y", " ", "o", "v", "e", "r", "h", "e", "a", "t">>
TextNonStarterHot == <<"n", "o", "n", "-", "s", "t", "a", "r", "t", "e", "r", " ", "t", "o", "o", " ", "h", "o", "t">>

Texts == {TextEmpty, TextBatteryOverheat, TextNonStarterHot}

\* The "symptoms" member of the parsed JSON body: a string, JSON null, a
\* non-string value, or no such key.
SymStr(s) == [kind |-> "str", text |-> s]
SymAbsent == [kind |-> "absent", text |-> <<>>]
SymNull == [kind |-> "null", text |-> <<>>]
SymNumber == [kind |-> "number", text |-> <<>>]

Body(sym, r, v, t) == [symptoms |-> sym, rpm |-> r, voltage |-> v, temperature |-> t]
NoBody == Body(SymAbsent, None, None, None)

Bodies ==
    {Body(SymStr(s), None, None, None) : s \in Texts \ {TextEmpty}}
    \cup {Body(SymStr(TextEmpty), Some(400), None, None),
          Body(SymAbsent, None, None, None),
          Body(SymNull, None, None, None),
          Body(SymNumber, None, None, None)}

\* What the python-OBD connection did: the constructor or a query raised,
\* the adapter is not connected, or the three queries answered, each with a
\* value or with none.
Bridge(k, r, v, t) == [kind |-> k, rpm |-> r, voltage |-> v, temperature |-> t]
BridgeUntried == Bridge("untried", None, None, None)
BridgeNoLib == Bridge("nolib", None, None, None)

\* <<rpm, voltage, temperature>> as the device reports them.
Readings ==
    {<<None, None, None>>,
     <<Some(0), None, None>>,
     <<Some(400), Some(1149), Some(106)>>,
     <<Some(400), Some(1300), Some(105)>>,
     <<Some(500), Some(1150), Some(106)>>}

BridgeOutcomes ==
    {Bridge("raise", None, None, None), Bridge("disconnected", None, None, None)}
    \cup {Bridge("connected", r[1], r[2], r[3]) : r \in Readings}

\* socket.create_connection either connects or raises an OSError
\* (socket.timeout and ConnectionRefusedError are subclasses of OSError).
NetOutcomes == {"connected", "timeout"}

\* Where the database work of a handler raises, if anywhere.
DbOutcomes == {"ok", "connect", "execute", "commit", "close"}

---------------------------------------------------------------------------
(* Telemetry *)

Snapshot(src, r, v, t) == [source |-> src, rpm |-> r, voltage |-> v, temperature |-> t]
\* Placeholder for "no obd_data yet"; never the value of a selected snapshot.
NoSnapshot == Snapshot("NONE", None, None, None)

\* The result of a call that may raise: the exception flag and the value.
Returned(v) == [raised |-> FALSE, value |-> v]
Raised(v) == [raised |-> TRUE, value |-> v]

\* `except OSError`: the exceptions of the network probe that the handler
\* of wifi_available catches.
IsOSError(net) == net \in {"timeout", "refused", "unreachable"}

\* wifi_available without its except clause.
wifi_available_uncaught(net) ==
    IF net = "connected" THEN Returned(TRUE) ELSE Raised(FALSE)

\* wifi_available(): True when the connection is made, False when it raises
\* an OSError; any other exception would propagate.
wifi_available(net) ==
    IF net = "connected" THEN Returned(TRUE)
    ELSE IF IsOSError(net) THEN Returned(FALSE)
    ELSE Raised(FALSE)

\* `x.value.magnitude if x.value else None`
Magnitude(reading) == IF Truthy(reading) THEN reading ELSE None

\* get_real_obd_data(): <<>> for None, <<dict>> for the BLUETOOTH dict.
get_real_obd_data(lib, br) ==
    IF ~lib THEN <<>>
    ELSE IF br.kind = "raise" THEN <<>>
    ELSE IF br.kind # "connected" THEN <<>>
    ELSE <<Snapshot("BLUETOOTH", Magnitude(br.rpm), Magnitude(br.voltage),
                   Magnitude(br.temperature))>>

\* Python truthiness of `real`: None is false, a non-empty dict is true.
RealTruthy(real) == real # <<>> /\ DOMAIN real[1] # {}

WifiSnapshot == Snapshot("WIFI", Some(WIFI_RPM), Some(WIFI_VOLTAGE), Some(WIFI_TEMPERATURE))
SimulatedSnapshot ==
    Snapshot("SIMULATED", Some(SIMULATED_RPM), Some(SIMULATED_VOLTAGE),
             Some(SIMULATED_TEMPERATURE))

Selected(exc, snap, n) == [raised |-> exc, obd |-> snap, net |-> n]

\* get_obd_data with the network probe consulted before the bridge.
get_obd_data_probe_first(lib, br, net) ==
    LET w == wifi_available(net)
        real == get_real_obd_data(lib, br)
    IN  IF w.raised THEN Selected(TRUE, NoSnapshot, net)
        ELSE IF w.value THEN Selected(FALSE, WifiSnapshot, net)
        ELSE IF RealTruthy(real) THEN Selected(FALSE, real[1], net)
        ELSE Selected(FALSE, SimulatedSnapshot, net)

\* get_obd_data(): the snapshot, whether an exception escaped, and the
\* outcome of the network probe ("untried" when it was not called).
get_obd_data(lib, br, net) ==
    LET real == get_real_obd_data(lib, br)
    IN  IF RealTruthy(real) THEN Selected(FALSE, real[1], "untried")
        ELSE LET w == wifi_available(net)
             IN  IF w.raised THEN Selected(TRUE, NoSnapshot, net)
                 ELSE IF w.value THEN Selected(FALSE, WifiSnapshot, net)
                 ELSE Selected(FALSE, SimulatedSnapshot, net)

---------------------------------------------------------------------------
(* Diagnosis *)

Result(d, c, n, r) == [diagnosis |-> d, confidence |-> c, next_action |-> n, reason |-> r]
NoResult == Result("", "", "", "")

NormalResult ==
    Result("System Normal", "80%", "No action required", "No abnormal data detected")
BatteryResult ==
    Result("Weak or Failing Battery", "92%",
           "Check battery terminals or replace battery",
           "Low voltage detected or battery-related symptoms")
StarterResult ==
    Result("Starter Motor or Ignition Issue", "88%",
           "Inspect starter motor, ignition switch, and wiring",
           "No-start or starter-related symptoms detected")
OverheatResult ==
    Result("Engine Overheating", "90%",
           "Stop engine immediately and check coolant system",
           "High engine temperature detected")
StallResult ==
    Result("Engine Stalling Issue", "85%",
           "Check fuel system and idle control",
           "Low RPM or stalling symptoms detected")

\* The chain with the overheating branch moved to the front.
CascadeOverheatFirst(symptoms, obd) ==
    IF \/ Contains(kw_overheat, symptoms)
       \/ Contains(kw_too_hot, symptoms)
       \/ (Truthy(obd.temperature) /\ Val(obd.temperature) > TEMPERATURE_LIMIT)
    THEN OverheatResult
    ELSE IF \/ Contains(kw_battery, symptoms)
            \/ Contains(kw_low_voltage, symptoms)
            \/ (Truthy(obd.voltage) /\ Val(obd.voltage) < VOLTAGE_LIMIT)
    THEN BatteryResult
    ELSE IF \/ Contains(kw_not_starting, symptoms)
            \/ Contains(kw_starter, symptoms)
            \/ Contains(kw_not_working, symptoms)
            \/ Contains(kw_engine_not, symptoms)
            \/ Contains(kw_click, symptoms)
            \/ Contains(kw_crank, symptoms)
    THEN StarterResult
    ELSE IF \/ Contains(kw_stall, symptoms)
            \/ Contains(kw_shut_off, symptoms)
            \/ (Truthy(obd.rpm) /\ Val(obd.rpm) < RPM_LIMIT)
    THEN StallResult
    ELSE NormalResult

\* The if/elif chain of analyze: the defaults, then the first branch whose
\* condition is true overwrites them.
Cascade(symptoms, obd) ==
    IF \/ Contains(kw_battery, symptoms)
       \/ Contains(kw_low_voltage, symptoms)
       \/ (Truthy(obd.voltage) /\ Val(obd.voltage) < VOLTAGE_LIMIT)
    THEN BatteryResult
    ELSE IF \/ Contains(kw_not_starting, symptoms)
            \/ Contains(kw_starter, symptoms)
            \/ Contains(kw_not_working, symptoms)
            \/ Contains(kw_engine_not, symptoms)
            \/ Contains(kw_click, symptoms)
            \/ Contains(kw_crank, symptoms)
    THEN StarterResult
    ELSE IF \/ Contains(kw_overheat, symptoms)
            \/ Contains(kw_too_hot, symptoms)
            \/ (Truthy(obd.temperature) /\ Val(obd.temperature) > TEMPERATURE_LIMIT)
    THEN OverheatResult
    ELSE IF \/ Contains(kw_stall, symptoms)
            \/ Contains(kw_shut_off, symptoms)
            \/ (Truthy(obd.rpm) /\ Val(obd.rpm) < RPM_LIMIT)
    THEN StallResult
    ELSE NormalResult

\* data.get("symptoms", "").lower(): a missing key gives "", a string is
\* lower-cased, and None or a non-string value has no method lower
\* (AttributeError).
parse_symptoms(data) ==
    IF data.symptoms.kind = "absent" THEN Returned(Lower(<<>>))
    ELSE IF data.symptoms.kind = "str" THEN Returned(Lower(data.symptoms.text))
    ELSE Raised(<<>>)

---------------------------------------------------------------------------
(* JSON and the diagnosis_history table *)

JsonNumber(x) == IF x = None THEN [t |-> "null", n |-> 0] ELSE [t |-> "number", n |-> Val(x)]
FromJsonNumber(j) == IF j.t = "null" THEN None ELSE Some(j.n)

\* json.dumps(obd_data) / jsonify: None becomes null, a number a JSON number.
JsonDumps(d) ==
    [source |-> d.source, rpm |-> JsonNumber(d.rpm), voltage |-> JsonNumber(d.voltage),
     temperature |-> JsonNumber(d.temperature)]
\* Reading the JSONB column back.
JsonLoads(j) ==
    Snapshot(j.source, FromJsonNumber(j.rpm), FromJsonNumber(j.voltage),
             FromJsonNumber(j.temperature))
NoJson == JsonDumps(NoSnapshot)

Row(i, s, d, c, r, n, o, ts) ==
    [id |-> i, symptoms |-> s, diagnosis |-> d, confidence |-> c, reason |-> r,
     next_action |-> n, obd_data |-> o, created_at |-> ts]

\* The INSERT with the reason and next_action values in each other's place.
InsertRowColumnsSwapped(id, symptoms, result, obd, ts) ==
    Row(id, symptoms, result.diagnosis, result.confidence, result.next_action,
        result.reason, JsonDumps(obd), ts)

\* The row the INSERT of analyze writes: the columns (symptoms, diagnosis,
\* confidence, reason, next_action, obd_data, created_at), id from the SERIAL.
InsertRow(id, symptoms, result, obd, ts) ==
    Row(id, symptoms, result.diagnosis, result.confidence, result.reason,
        result.next_action, JsonDumps(obd), ts)

\* A write that replaces the table's rows by the new one.
CommitReplacing(table, row) == <<row>>

\* conn.commit() of the INSERT: the table gains the row.
Commit(table, row) == Append(table, row)

RECURSIVE Reverse(_)
Reverse(s) == IF s = <<>> THEN <<>> ELSE Append(Reverse(Tail(s)), Head(s))

\* SELECT * ... ORDER BY created_at DESC (created_at increases along the table).
SelectRecent(table) == Reverse(table)

---------------------------------------------------------------------------
(* State *)

VARIABLES
    OBD_LIB_AVAILABLE,  \* module global set by the guarded `import obd`
    diagnosis_history,  \* the rows of the table, in insertion order
    served,             \* number of requests received so far
    pc,                 \* per handler: "idle", or "save" (analyze, before line 193)
    data,               \* per handler: local `data` of analyze
    symptoms,           \* per handler: local `symptoms` of analyze
    bridge,             \* per handler: what the live-device bridge did
    net,                \* per handler: what the network probe did
    obd_data,           \* per handler: local `obd_data` of analyze
    result,             \* per handler: locals diagnosis, confidence, next_action, reason
    last                \* the request completed last: its body and symptoms,
                        \* what the database did, and the response sent

vars ==
    <<OBD_LIB_AVAILABLE, diagnosis_history, served, pc, data, symptoms, bridge, net,
      obd_data, result, last>>

\* A response: a diagnosis (200 with the five members), the history list,
\* or the 500 error response Flask makes of an unhandled exception.
Response(k, e, res, o, rows) ==
    [kind |-> k, error |-> e, diagnosis |-> res.diagnosis, confidence |-> res.confidence,
     reason |-> res.reason, next_action |-> res.next_action, obd |-> o, rows |-> rows]
NoResponse == Response("none", "", NoResult, NoJson, <<>>)
ErrorResponse(e) == Response("error", e, NoResult, NoJson, <<>>)
HistoryResponse(rows) == Response("history", "", NoResult, NoJson, rows)

\* jsonify({"diagnosis": ..., "confidence": ..., "reason": ..., "next_action": ..., "obd": obd_data})
DiagnosisResponse(res, obd) == Response("diagnosis", "", res, JsonDumps(obd), <<>>)

Completed(rt, d, s, dbo, r) ==
    [route |-> rt, data |-> d, symptoms |-> s, db |-> dbo, resp |-> r]
NothingCompleted == Completed("none", NoBody, <<>>, "untried", NoResponse)

Init ==
    /\ OBD_LIB_AVAILABLE \in BOOLEAN
    /\ diagnosis_history = <<>>
    /\ served = 0
    /\ pc = [p \in Procs |-> "idle"]
    /\ data = [p \in Procs |-> NoBody]
    /\ symptoms = [p \in Procs |-> <<>>]
    /\ bridge = [p \in Procs |-> BridgeUntried]
    /\ net = [p \in Procs |-> "untried"]
    /\ obd_data = [p \in Procs |-> NoSnapshot]
    /\ result = [p \in Procs |-> NoResult]
    /\ last = NothingCompleted

\* The outcomes the bridge can have in this process: without the library
\* there is no connection to speak of.
BridgeChoices == IF OBD_LIB_AVAILABLE THEN BridgeOutcomes ELSE {BridgeNoLib}

\* analyze, lines 137-188: parse the body, select the telemetry, run the
\* cascade.  An exception in these lines ends the request with an error
\* response.
AnalyzeCompute(p) ==
    /\ pc[p] = "idle"
    /\ served < MaxRequests
    /\ served' = served + 1
    /\ \E d \in Bodies :
         LET parsed == parse_symptoms(d)
         IN  IF parsed.raised
             THEN /\ last' = Completed("analyze", d, <<>>, "untried",
                                       ErrorResponse("AttributeError"))
                  /\ UNCHANGED <<pc, data, symptoms, bridge, net, obd_data, result>>
             ELSE \E br \in BridgeChoices, n \in NetOutcomes :
                    LET sel == get_obd_data(OBD_LIB_AVAILABLE, br, n)
                    IN  IF sel.raised
                        THEN /\ last' = Completed("analyze", d, parsed.value, "untried",
                                                  ErrorResponse("TelemetryError"))
                             /\ UNCHANGED <<pc, data, symptoms, bridge, net, obd_data, result>>
                        ELSE /\ pc' = [pc EXCEPT ![p] = "save"]
                             /\ data' = [data EXCEPT ![p] = d]
                             /\ symptoms' = [symptoms EXCEPT ![p] = parsed.value]
                             /\ bridge' = [bridge EXCEPT ![p] = br]
                             /\ net' = [net EXCEPT ![p] = sel.net]
                             /\ obd_data' = [obd_data EXCEPT ![p] = sel.obd]
                             /\ result' = [result EXCEPT ![p] = Cascade(parsed.value, sel.obd)]
                             /\ last' = last
    /\ UNCHANGED <<OBD_LIB_AVAILABLE, diagnosis_history>>

\* analyze, lines 193-218: insert the row, commit, close, respond.  The
\* database may raise at connect, at execute, at commit or at close; nothing
\* catches it, so the request then ends with an error response.  The row is
\* in the table once commit has returned.  The handler's locals go out of
\* scope when it returns.
AnalyzeSave(p) ==
    /\ pc[p] = "save"
    /\ \E o \in DbOutcomes :
         LET id == Len(diagnosis_history) + 1
             row == InsertRow(id, symptoms[p], result[p], obd_data[p], id)
         IN  /\ diagnosis_history' =
                    IF o \in {"close", "ok"} THEN Commit(diagnosis_history, row)
                    ELSE diagnosis_history
             /\ last' = Completed("analyze", data[p], symptoms[p], o,
                                  IF o = "ok" THEN DiagnosisResponse(result[p], obd_data[p])
                                  ELSE ErrorResponse("DatabaseError"))
    /\ pc' = [pc EXCEPT ![p] = "idle"]
    /\ data' = [data EXCEPT ![p] = NoBody]
    /\ symptoms' = [symptoms EXCEPT ![p] = <<>>]
    /\ bridge' = [bridge EXCEPT ![p] = BridgeUntried]
    /\ net' = [net EXCEPT ![p] = "untried"]
    /\ obd_data' = [obd_data EXCEPT ![p] = NoSnapshot]
    /\ result' = [result EXCEPT ![p] = NoResult]
    /\ UNCHANGED <<OBD_LIB_AVAILABLE, served>>

\* history, lines 221-243: read the table newest first and return it.  The
\* handler writes nothing; a database exception ends it with an error
\* response.
History(p) ==
    /\ pc[p] = "idle"
    /\ served < MaxRequests
    /\ served' = served + 1
    /\ \E o \in {"ok", "connect", "execute"} :
         last' = Completed("history", NoBody, <<>>, o,
                           IF o = "ok" THEN HistoryResponse(SelectRecent(diagnosis_history))
                           ELSE ErrorResponse("DatabaseError"))
    /\ UNCHANGED <<OBD_LIB_AVAILABLE, diagnosis_history, pc, data, symptoms, bridge, net,
                   obd_data, result>>

Next == \E p \in Procs : AnalyzeCompute(p) \/ AnalyzeSave(p) \/ History(p)

Spec == Init /\ [][Next]_vars

---------------------------------------------------------------------------
(* Vocabulary of the properties *)

InFlight(p) == pc[p] = "save"

\* The rule table of the diagnosis engine: rule i matches on a keyword of
\* the rule, or on its telemetry field being present and strictly beyond
\* the threshold (11.5 V, 105 degrees, 500 rpm).
Below(x, limit) == Present(x) /\ Val(x) < limit
Above(x, limit) == Present(x) /\ Val(x) > limit

BatteryKeyword(s) == Contains(kw_battery, s) \/ Contains(kw_low_voltage, s)
StarterKeyword(s) ==
    \/ Contains(kw_not_starting, s) \/ Contains(kw_starter, s)
    \/ Contains(kw_not_working, s) \/ Contains(kw_engine_not, s)
    \/ Contains(kw_click, s) \/ Contains(kw_crank, s)
OverheatKeyword(s) == Contains(kw_overheat, s) \/ Contains(kw_too_hot, s)
StallKeyword(s) == Contains(kw_stall, s) \/ Contains(kw_shut_off, s)
NoKeyword(s) ==
    ~BatteryKeyword(s) /\ ~StarterKeyword(s) /\ ~OverheatKeyword(s) /\ ~StallKeyword(s)

RuleHolds(i, s, t) ==
    CASE i = 1 -> BatteryKeyword(s) \/ Below(t.voltage, 1150)
      [] i = 2 -> StarterKeyword(s)
      [] i = 3 -> OverheatKeyword(s) \/ Above(t.temperature, 105)
      [] i = 4 -> StallKeyword(s) \/ Below(t.rpm, 500)
      [] OTHER -> TRUE

FirstRule(s, t) == CHOOSE i \in 1..5 : RuleHolds(i, s, t) /\ \A j \in 1..(i - 1) : ~RuleHolds(j, s, t)

RuleOutcome(i) ==
    CASE i = 1 -> [diagnosis |-> "Weak or Failing Battery", confidence |-> "92%",
                   reason |-> "Low voltage detected or battery-related symptoms",
                   next_action |-> "Check battery terminals or replace battery"]
      [] i = 2 -> [diagnosis |-> "Starter Motor or Ignition Issue", confidence |-> "88%",
                   reason |-> "No-start or starter-related symptoms detected",
                   next_action |-> "Inspect starter motor, ignition switch, and wiring"]
      [] i = 3 -> [diagnosis |-> "Engine Overheating", confidence |-> "90%",
                   reason |-> "High engine temperature detected",
                   next_action |-> "Stop engine immediately and check coolant system"]
      [] i = 4 -> [diagnosis |-> "Engine Stalling Issue", confidence |-> "85%",
                   reason |-> "Low RPM or stalling symptoms detected",
                   next_action |-> "Check fuel system and idle control"]
      [] OTHER -> [diagnosis |-> "System Normal", confidence |-> "80%",
                   reason |-> "No abnormal data detected",
                   next_action |-> "No action required"]

SameDiagnosis(a, b) ==
    /\ a.diagnosis = b.diagnosis
    /\ a.confidence = b.confidence
    /\ a.reason = b.reason
    /\ a.next_action = b.next_action

AllAbsent(t) == t.rpm = None /\ t.voltage = None /\ t.temperature = None

BridgeUnavailable(p) == bridge[p].kind \in {"nolib", "raise", "disconnected"}

\* The telemetry of a request as the source supplied it: the device's own
\* readings when the bridge answered, else the fields of the snapshot.
Telemetry(p) == IF bridge[p].kind = "connected" THEN bridge[p] ELSE obd_data[p]

---------------------------------------------------------------------------
(* C1 *)

\* C1 (as claimed): whenever the append of an analyze request fails (the
\* connection, the INSERT or the commit raises), the caller still gets the
\* diagnosis response and not an error.
C1_PersistenceNonBlocking ==
    (last.route = "analyze" /\ last.db \in {"connect", "execute", "commit"})
        => last.resp.kind = "diagnosis"

---------------------------------------------------------------------------
(* C2 *)

\* C2: every diagnosis that analyze computes and every diagnosis response
\* it returns carries the category, confidence, reason and next action of
\* the lowest-numbered rule that holds of the lower-cased text and the
\* snapshot (Normal, 80%, when none holds); text with both "battery" and
\* "overheat" gives WeakBattery; empty text with every field absent gives
\* Normal with 80%.
C2_FirstMatchingRuleWins ==
    /\ \A p \in Procs :
         InFlight(p) =>
            SameDiagnosis(result[p], RuleOutcome(FirstRule(symptoms[p], obd_data[p])))
    /\ last.resp.kind = "diagnosis" =>
         LET s == last.symptoms
             t == JsonLoads(last.resp.obd)
         IN  /\ SameDiagnosis(last.resp, RuleOutcome(FirstRule(s, t)))
             /\ (Contains(kw_battery, s) /\ Contains(kw_overheat, s))
                    => last.resp.diagnosis = "Weak or Failing Battery"
             /\ (s = <<>> /\ AllAbsent(t))
                    => (last.resp.diagnosis = "System Normal" /\ last.resp.confidence = "80%")

\* A response for text holding "battery" and "overheat" has been returned as
\* WeakBattery while another request, with empty text and no telemetry field,
\* has been diagnosed Normal.
C2_Witness ==
    /\ last.resp.kind = "diagnosis"
    /\ Contains(kw_battery, last.symptoms) /\ Contains(kw_overheat, last.symptoms)
    /\ last.resp.diagnosis = "Weak or Failing Battery"
    /\ \E p \in Procs :
         /\ InFlight(p)
         /\ symptoms[p] = <<>> /\ AllAbsent(obd_data[p])
         /\ result[p].diagnosis = "System Normal"

---------------------------------------------------------------------------
(* C3 *)

\* C3 (as claimed): with no keyword in the text, a numeric rule decides
\* exactly when its telemetry field is present and strictly beyond the
\* threshold, a present reading of 0 included: WeakBattery iff voltage is
\* present and < 11.5, else Overheating iff temperature is present and
\* > 105, else StallingFault iff rpm is present and < 500.
C3_NumericThresholds ==
    \A p \in Procs :
        (InFlight(p) /\ NoKeyword(symptoms[p])) =>
            LET t == Telemetry(p)
                d == result[p].diagnosis
            IN  /\ (d = "Weak or Failing Battery") <=> Below(t.voltage, 1150)
                /\ (d = "Engine Overheating")
                        <=> (~Below(t.voltage, 1150) /\ Above(t.temperature, 105))
                /\ (d = "Engine Stalling Issue")
                        <=> (/\ ~Below(t.voltage, 1150)
                             /\ ~Above(t.temperature, 105)
                             /\ Below(t.rpm, 500))

---------------------------------------------------------------------------
(* C4 *)

\* C4: the bridge is tried first, then the network probe, then simulation.
\* With the bridge unavailable and the probe connected the snapshot is WIFI
\* with voltage 13.6, rpm 800, temperature 92; with the probe failing too it
\* is SIMULATED with voltage 12.1, rpm 780, temperature 94; and when the
\* bridge succeeded the snapshot is the bridge's and the probe was not run.
C4_FallbackChainOrdering ==
    \A p \in Procs :
        InFlight(p) =>
            /\ (BridgeUnavailable(p) /\ net[p] = "connected") =>
                   obd_data[p] = [source |-> "WIFI", voltage |-> <<1360>>, rpm |-> <<800>>,
                                  temperature |-> <<92>>]
            /\ (BridgeUnavailable(p) /\ net[p] # "connected") =>
                   /\ net[p] # "untried"
                   /\ obd_data[p] = [source |-> "SIMULATED", voltage |-> <<1210>>,
                                     rpm |-> <<780>>, temperature |-> <<94>>]
            /\ bridge[p].kind = "connected" =>
                   /\ obd_data[p].source = "BLUETOOTH"
                   /\ net[p] = "untried"

\* One request fell back to the network probe, another to simulation.
C4_Witness ==
    \E p, q \in Procs :
        /\ InFlight(p) /\ BridgeUnavailable(p) /\ obd_data[p].source = "WIFI"
        /\ InFlight(q) /\ BridgeUnavailable(q) /\ obd_data[q].source = "SIMULATED"

---------------------------------------------------------------------------
(* C5 *)

\* C5: whatever the bridge and the network probe do, get_obd_data returns
\* a snapshot: no request ends with an exception of the selector, and every
\* request past the selector holds a snapshot of one of the three sources.
C5_SelectorAlwaysSucceeds ==
    /\ last.resp.error # "TelemetryError"
    /\ \A p \in Procs :
         InFlight(p) => obd_data[p].source \in {"BLUETOOTH", "WIFI", "SIMULATED"}

\* The bridge raised, the network probe raised, and the request went on with
\* the simulated snapshot.
C5_Witness ==
    \E p \in Procs :
        /\ InFlight(p)
        /\ bridge[p].kind = "raise" /\ net[p] = "timeout"
        /\ obd_data[p].source = "SIMULATED"

---------------------------------------------------------------------------
(* C6 *)

\* C6 (as claimed): a request with symptoms "" and telemetry {rpm: 400}
\* that is answered with a diagnosis is answered StallingFault.
C6_RequestRpmDecides ==
    (/\ last.route = "analyze"
     /\ last.data = Body(SymStr(<<>>), Some(400), None, None)
     /\ last.resp.kind = "diagnosis")
        => last.resp.diagnosis = "Engine Stalling Issue"

---------------------------------------------------------------------------
(* C7 *)

\* C7: every row of diagnosis_history holds the diagnosis, confidence,
\* reason and next_action that the cascade gives for the row's own symptoms
\* and its own stored obd_data.
C7_HistoryMatchesCascade ==
    \A i \in DOMAIN diagnosis_history :
        LET row == diagnosis_history[i]
        IN  SameDiagnosis(row, Cascade(row.symptoms, JsonLoads(row.obd_data)))

\* Two rows with different diagnoses are in the table.
C7_Witness ==
    /\ Len(diagnosis_history) >= 2
    /\ diagnosis_history[1].diagnosis # diagnosis_history[2].diagnosis

---------------------------------------------------------------------------
(* C8 *)

\* C8 (as claimed): a request whose symptoms member is missing, null or
\* not a string, and whose database work did not fail, is answered with a
\* diagnosis.
C8_InvalidSymptomsPermitted ==
    (/\ last.route = "analyze"
     /\ last.data.symptoms.kind \in {"absent", "null", "number"}
     /\ last.db \in {"untried", "ok"})
        => last.resp.kind = "diagnosis"

---------------------------------------------------------------------------
(* C9 *)

\* C9 (as claimed): a BLUETOOTH snapshot has at least one of rpm, voltage,
\* temperature present, and a connected device that yields no field sends
\* the selector on to the network probe.
C9_LiveDeviceNeedsAField ==
    \A p \in Procs :
        InFlight(p) =>
            /\ obd_data[p].source = "BLUETOOTH" => ~AllAbsent(obd_data[p])
            /\ (bridge[p].kind = "connected" /\ AllAbsent(bridge[p])) => net[p] # "untried"

---------------------------------------------------------------------------
(* C10 *)

IsPrefix(a, b) == Len(a) <= Len(b) /\ SubSeq(b, 1, Len(a)) = a

\* C10: in every step the table keeps its rows unchanged and in place; a
\* step in which analyze returns a diagnosis adds exactly one row, whose
\* symptoms are the request's and whose diagnosis fields and obd_data are
\* those of the response; a history request leaves the table as it was.
C10_AppendOnly ==
    [][/\ IsPrefix(diagnosis_history, diagnosis_history')
       /\ \A p \in Procs :
            (InFlight(p) /\ pc'[p] = "idle" /\ last'.resp.kind = "diagnosis") =>
                /\ Len(diagnosis_history') = Len(diagnosis_history) + 1
                /\ LET row == diagnosis_history'[Len(diagnosis_history')]
                   IN  /\ row.symptoms = symptoms[p]
                       /\ SameDiagnosis(row, last'.resp)
                       /\ row.obd_data = last'.resp.obd
       /\ (served' # served /\ last'.route = "history") =>
            diagnosis_history' = diagnosis_history]_vars

\* A history request has returned the one row an analyze request added.
C10_Witness ==
    /\ last.route = "history" /\ last.resp.kind = "history"
    /\ Len(diagnosis_history) = 1
    /\ last.resp.rows = diagnosis_history

====
